---- MODULE Spec2Model ----
(***************************************************************************)
(* Weavely: a document (SimpleFile) owns a Content (ordered, name-keyed    *)
(* blocks), a FileFormatter and a FileRenderer registry keyed by payload   *)
(* type, an encoding and a delimiter.  Strings are sequences of one        *)
(* character strings; byte strings are sequences of integers.              *)
(***************************************************************************)
EXTENDS Integers, Sequences, FiniteSets, TLC

\* ---------------------------------------------------------------- bounds
\* number of add_block calls made on the document
MaxBlocks == 2

\* the number of blocks add_heading and add_paragraph construct
MaxAdds == 3

\* width handed to WrappedParagraphRenderer(width=...) / TextWrapFormatter(max_width=...)
WrapWidth == 2

\* ------------------------------------------------------- program constants
MAX_HEADING_LEVEL == 6

\* Python's None
None == "None"

\* concrete payload classes (subclasses of Data)
DataTypes == {"Heading", "Paragraph", "PlainTextData"}

\* block names the caller passes to the block constructors
Names == {"n1", "n2"}

\* delimiter argument of SimpleFile.__init__ (default "\n")
Delimiters == {<<"\n">>}

\* ------------------------------------------------------------- strategies
\* subclasses of BlockRendererBase
ClassRenderers == {"HeadingMarkdownRenderer", "WrappedParagraphRenderer"}

\* plain callables satisfying the IBlockRenderer protocol: a function that
\* reverses the text, and a callable object whose truth value is False
\* (it defines __len__ returning 0) and which returns the text
ProtocolRenderers == {"reverse_renderer", "FalsyRenderer"}

\* subclasses of BlockFormatterBase
ClassFormatters == {"TextWrapFormatter"}

\* plain callables satisfying the IBlockFormatter protocol: a function that
\* returns a new payload of the same class with "!" appended to the text,
\* a callable object whose truth value is False (it defines __len__
\* returning 0) and which returns a new payload with "-" appended, and a
\* function that returns a Heading of level 1 made of the payload's text
\* (to_heading), and a function that reverses the text of the payload it is
\* given and returns that same payload (reverse_in_place)
ProtocolFormatters ==
  {"append_bang", "FalsyFormatter", "to_heading", "reverse_in_place"}

\* bool(obj) as Python evaluates it for `if renderer:` / `if formatter:`
Truthy(obj) == obj \notin {None, "FalsyRenderer", "FalsyFormatter"}

\* _SUPPORTED_DATA_TYPES of the class based renderers
RendererSupportedDataTypes(r) ==
  CASE r = "HeadingMarkdownRenderer" -> {"Heading"}
    [] r = "WrappedParagraphRenderer" -> {"Paragraph"}
    [] OTHER -> {}

\* _SUPPORTED_DATA_TYPES of the class based formatters
FormatterSupportedDataTypes(f) ==
  CASE f = "TextWrapFormatter" -> {"PlainTextData"}
    [] OTHER -> {}

\* ------------------------------------------------------------ string helpers
\* c * n
Repeat(c, n) == [i \in 1..n |-> c]

\* s[::-1]
Reverse(s) == [i \in 1..Len(s) |-> s[Len(s) + 1 - i]]

\* str.isspace for the characters of the model
IsSpace(c) == c \in {" ", "\n"}

\* TextWrapper._munge_whitespace: every whitespace character becomes a space
Munge(text) == [i \in 1..Len(text) |-> IF IsSpace(text[i]) THEN " " ELSE text[i]]

\* TextWrapper._split: maximal runs of spaces and of other characters (the
\* texts of the model hold no hyphen, so words are never split)
RECURSIVE SplitChunks(_)
SplitChunks(text) ==
  IF text = <<>> THEN <<>>
  ELSE LET sp == (text[1] = " ")
           n == CHOOSE k \in 1..Len(text) :
                  /\ \A i \in 1..k : (text[i] = " ") = sp
                  /\ (k = Len(text) \/ (text[k + 1] = " ") # sp)
       IN <<SubSeq(text, 1, n)>> \o SplitChunks(SubSeq(text, n + 1, Len(text)))

\* chunk.strip() == ''
IsSpaceChunk(chunk) == chunk = <<>> \/ chunk[1] = " "

\* ''.join(chunks) and its length
RECURSIVE Concat(_)
Concat(chunks) == IF chunks = <<>> THEN <<>> ELSE Head(chunks) \o Concat(Tail(chunks))

\* the number of leading chunks the current line takes before one no longer fits
FitCount(chunks, width) ==
  CHOOSE k \in 0..Len(chunks) :
    /\ Len(Concat(SubSeq(chunks, 1, k))) <= width
    /\ (k = Len(chunks) \/ Len(Concat(SubSeq(chunks, 1, k + 1))) > width)

\* drop_whitespace at the start of every line but the first
DropLeadingSpace(chunks, lines) ==
  IF lines # <<>> /\ IsSpaceChunk(Head(chunks)) THEN Tail(chunks) ELSE chunks

\* drop_whitespace at the end of a line
DropTrailingSpace(cur) ==
  IF cur # <<>> /\ IsSpaceChunk(cur[Len(cur)]) THEN SubSeq(cur, 1, Len(cur) - 1) ELSE cur

\* TextWrapper._wrap_chunks (drop_whitespace and break_long_words set, as by
\* default), one line per round: the lines built from the chunks
RECURSIVE WrapChunks(_, _, _)

\* the end of a round: the line is stripped and, unless empty, appended
WrapEmit(cur, rest, width, lines) ==
  WrapChunks(rest, width,
             IF DropTrailingSpace(cur) # <<>>
             THEN Append(lines, Concat(DropTrailingSpace(cur))) ELSE lines)

\* TextWrapper._handle_long_word: a chunk longer than the width is broken,
\* its head fills what is left of the current line
WrapLongWord(cur, rest, width, lines) ==
  IF rest # <<>> /\ Len(Head(rest)) > width
  THEN WrapEmit(Append(cur, SubSeq(Head(rest), 1, width - Len(Concat(cur)))),
                <<SubSeq(Head(rest), width - Len(Concat(cur)) + 1, Len(Head(rest)))>>
                  \o Tail(rest),
                width, lines)
  ELSE WrapEmit(cur, rest, width, lines)

\* the chunks that fit are taken onto the current line
WrapLine(chunks, width, lines) ==
  WrapLongWord(SubSeq(chunks, 1, FitCount(chunks, width)),
               SubSeq(chunks, FitCount(chunks, width) + 1, Len(chunks)),
               width, lines)

WrapChunks(chunks, width, lines) ==
  IF chunks = <<>> THEN lines
  ELSE WrapLine(DropLeadingSpace(chunks, lines), width, lines)

\* "\n".join(lines)
RECURSIVE JoinLines(_)
JoinLines(lines) ==
  IF lines = <<>> THEN <<>>
  ELSE IF Len(lines) = 1 THEN lines[1]
  ELSE lines[1] \o <<"\n">> \o JoinLines(Tail(lines))

\* textwrap.fill(text, width)
Fill(text, width) == JoinLines(WrapChunks(SplitChunks(Munge(text)), width, <<>>))

\* the UTF-8 encoding of one character
Utf8(c) ==
  CASE c = "a" -> <<97>>
    [] c = "b" -> <<98>>
    [] c = "c" -> <<99>>
    [] c = "#" -> <<35>>
    [] c = " " -> <<32>>
    [] c = "!" -> <<33>>
    [] c = "-" -> <<45>>
    [] c = "\n" -> <<10>>
    [] OTHER -> <<195, 169>>

\* str.encode(encoding)
RECURSIVE Encode(_, _)
Encode(s, encoding) ==
  IF s = <<>> THEN <<>> ELSE Utf8(Head(s)) \o Encode(Tail(s), encoding)

\* --------------------------------------------------------------- renderers
Ok(value) == [raised |-> "none", value |-> value]
Raise(error) == [raised |-> error, value |-> <<>>]

\* HeadingMarkdownRenderer._render
HeadingMarkdownRender(data) ==
  IF data.level > MAX_HEADING_LEVEL THEN Raise("DataIsInvalidError")
  ELSE Ok(Repeat("#", data.level) \o <<" ">> \o data.text \o <<"\n">>)

\* WrappedParagraphRenderer._render
WrappedParagraphRender(data) == Ok(Fill(data.text, WrapWidth))

\* a __call__ that goes to _render without the type check
BlockRendererBaseCallUnchecked(r, data) ==
  IF r = "HeadingMarkdownRenderer" THEN HeadingMarkdownRender(data)
  ELSE WrappedParagraphRender(data)

\* BlockRendererBase.__call__: the type check, then _render
BlockRendererBaseCall(r, data) ==
  IF data.type \notin RendererSupportedDataTypes(r) THEN Raise("TypeError")
  ELSE IF r = "HeadingMarkdownRenderer" THEN HeadingMarkdownRender(data)
  ELSE WrappedParagraphRender(data)

\* renderer(data) for any object satisfying IBlockRenderer
CallRenderer(r, data) ==
  IF r \in ClassRenderers THEN BlockRendererBaseCall(r, data)
  ELSE IF r = "reverse_renderer" THEN Ok(Reverse(data.text))
  ELSE Ok(data.text)

\* -------------------------------------------------------------- formatters
\* the result of formatter(data): the payload returned and whether it is the
\* very object that was passed in (mutated in place)
FormatOk(data, inplace) == [raised |-> "none", data |-> data, inplace |-> inplace]
FormatRaise(error, data) == [raised |-> error, data |-> data, inplace |-> FALSE]

\* a _format that also changes the class of the payload it mutates
TextWrapFormatRetypes(data) ==
  FormatOk([data EXCEPT !.text = Fill(@, WrapWidth), !.type = "Paragraph"], TRUE)

\* TextWrapFormatter._format
TextWrapFormat(data) == FormatOk([data EXCEPT !.text = Fill(@, WrapWidth)], TRUE)

\* BlockFormatterBase.__call__: the type check, then _format
BlockFormatterBaseCall(f, data) ==
  IF data.type \notin FormatterSupportedDataTypes(f) THEN FormatRaise("TypeError", data)
  ELSE TextWrapFormat(data)

\* formatter(data) for any object satisfying IBlockFormatter
CallFormatter(f, data) ==
  IF f \in ClassFormatters THEN BlockFormatterBaseCall(f, data)
  ELSE IF f = "append_bang" THEN FormatOk([data EXCEPT !.text = @ \o <<"!">>], FALSE)
  ELSE IF f = "to_heading"
  THEN FormatOk([type |-> "Heading", text |-> data.text, level |-> 1], FALSE)
  ELSE IF f = "reverse_in_place"
  THEN FormatOk([data EXCEPT !.text = Reverse(@)], TRUE)
  ELSE FormatOk([data EXCEPT !.text = @ \o <<"-">>], FALSE)

\* ------------------------------------------------------- block construction
\* the **data keyword arguments of by_data: whether 'text' and 'level' are
\* among them, and their values
Kwargs(hasText, text, hasLevel, level) ==
  [hasText |-> hasText, text |-> text, hasLevel |-> hasLevel, level |-> level]

NoKwargs == Kwargs(FALSE, <<>>, FALSE, 0)

\* the outcome of a construction: the exception raised and its `field`
BuildOk == [raised |-> "none", field |-> None]
BuildRaise(error, field) == [raised |-> error, field |-> field]

\* a __post_init__ that accepts every level
HeadingPostInitAnyLevel(text, level) ==
  IF text = <<>> THEN BuildRaise("DataIsMissingError", "text") ELSE BuildOk

\* Heading.__post_init__
HeadingPostInit(text, level) ==
  IF text = <<>> THEN BuildRaise("DataIsMissingError", "text")
  ELSE IF level < 1 THEN BuildRaise("DataIsInvalidError", "level")
  ELSE BuildOk

\* the level of Heading(**data): the dataclass default is 1
HeadingLevel(kwargs) == IF kwargs.hasLevel THEN kwargs.level ELSE 1

\* HeadingBlock.by_data
HeadingBlockByData(kwargs) ==
  IF ~kwargs.hasText THEN BuildRaise("DataIsMissingError", "text")
  ELSE HeadingPostInit(kwargs.text, HeadingLevel(kwargs))

\* ParagraphBlock.by_data (Paragraph validates nothing)
ParagraphBlockByData(kwargs) ==
  IF ~kwargs.hasText THEN BuildRaise("DataIsMissingError", "text") ELSE BuildOk

\* --------------------------------------------------------------- registries
\* a registry (FileRenderer / FileFormatter) is a function from the payload
\* classes that have an entry to the strategy registered for them
EmptyRegistry == [t \in {} |-> None]

\* Mapping.__contains__
RegistryContains(reg, key) == key \in DOMAIN reg

\* a get that finds nothing, whatever the registry holds
RegistryGetNothing(reg, key) == None

\* Mapping.get(key, None) over FileRenderer.__getitem__ / FileFormatter.__getitem__
RegistryGet(reg, key) == IF key \in DOMAIN reg THEN reg[key] ELSE None

\* a __setitem__ that keeps the strategy a class already has
RegistrySetItemKeepsOld(reg, key, value) ==
  [t \in DOMAIN reg \cup {key} |-> IF t \in DOMAIN reg THEN reg[t] ELSE value]

\* FileRenderer.__setitem__ / FileFormatter.__setitem__
RegistrySetItem(reg, key, value) ==
  [t \in DOMAIN reg \cup {key} |-> IF t = key THEN value ELSE reg[t]]

\* a __delitem__ that leaves the entry in place
RegistryDelItemKeeps(reg, key) == reg

\* FileRenderer.__delitem__ / FileFormatter.__delitem__
RegistryDelItem(reg, key) == [t \in DOMAIN reg \ {key} |-> reg[t]]

\* FileRenderer.__len__ / FileFormatter.__len__
RegistryLen(reg) == Cardinality(DOMAIN reg)

\* ------------------------------------------------------------------ content
\* Content._blocks is an insertion ordered dict name -> block: a sequence of
\* blocks with pairwise distinct names.  A block is
\*   [id, name, data, formatter, renderer], data = [type, text, level]
NameIndex(blocks, name) ==
  IF \E i \in 1..Len(blocks) : blocks[i].name = name
  THEN CHOOSE i \in 1..Len(blocks) : blocks[i].name = name
  ELSE 0

\* an add that puts a new name in front of the others
DictSetItemInFront(blocks, block) ==
  IF NameIndex(blocks, block.name) = 0 THEN <<block>> \o blocks
  ELSE [blocks EXCEPT ![NameIndex(blocks, block.name)] = block]

\* an add that appends the block even when its name is already held
DictSetItemAppends(blocks, block) == Append(blocks, block)

\* an add that moves a name already held to the end
DictSetItemMovesToEnd(blocks, block) ==
  Append(SelectSeq(blocks, LAMBDA b : b.name # block.name), block)

\* self._blocks[block.name] = block
DictSetItem(blocks, block) ==
  IF NameIndex(blocks, block.name) = 0 THEN Append(blocks, block)
  ELSE [blocks EXCEPT ![NameIndex(blocks, block.name)] = block]

\* Content.__iter__: iter(self._blocks.values()), as the list of block ids
ContentIter(blocks) == [i \in 1..Len(blocks) |-> blocks[i].id]

\* Content.__len__
ContentLen(blocks) == Len(blocks)

\* ------------------------------------------------------------------ streams
\* an in-memory stream: its kind, its buffer and the current position
NewStream(kind) == [kind |-> kind, buf |-> <<>>, pos |-> 0]

\* StringIO.write / BytesIO.write: overwrite at the position, advance it
StreamWrite(stream, s) ==
  [kind |-> stream.kind,
   buf |-> SubSeq(stream.buf, 1, stream.pos) \o s
           \o SubSeq(stream.buf, stream.pos + Len(s) + 1, Len(stream.buf)),
   pos |-> stream.pos + Len(s)]

\* StringIO.getvalue(): the whole buffer, whatever the position
StreamGetValue(stream) == stream.buf

\* BytesIO.read(): from the current position to the end
StreamRead(stream) == SubSeq(stream.buf, stream.pos + 1, Len(stream.buf))

\* a delimiter written after every block, the last one included
WriteDelimiterAlways(stream, delim, write_delimiter) == StreamWrite(stream, delim)

\* the write of the delimiter in SimpleFile._write_to_stream
WriteDelimiter(stream, delim, write_delimiter) ==
  IF write_delimiter THEN StreamWrite(stream, delim) ELSE stream

\* a _write_to_stream that writes no delimiter into a byte stream
WriteToStreamNoByteDelimiter(stream, rendered, write_delimiter, delim, enc) ==
  IF stream.kind = "StringIO"
  THEN WriteDelimiter(StreamWrite(stream, rendered), delim, write_delimiter)
  ELSE StreamWrite(stream, Encode(rendered, enc))

\* SimpleFile._write_to_stream for the two supported stream kinds
WriteToStream(stream, rendered, write_delimiter, delim, enc) ==
  IF stream.kind = "StringIO"
  THEN WriteDelimiter(StreamWrite(stream, rendered), delim, write_delimiter)
  ELSE WriteDelimiter(StreamWrite(stream, Encode(rendered, enc)),
                      Encode(delim, enc), write_delimiter)

\* SimpleFile._write_to_stream: the match on the stream's type
WriteToStreamMatch(stream, rendered, write_delimiter, delim, enc) ==
  IF stream.kind \in {"StringIO", "BytesIO"}
  THEN [stream |-> WriteToStream(stream, rendered, write_delimiter, delim, enc),
        raised |-> "none"]
  ELSE IF stream.kind = "IOBase"
  THEN [stream |-> stream, raised |-> "NotImplementedError"]
  ELSE [stream |-> stream, raised |-> "TypeError"]

\* ------------------------------------------------------- strategy resolution
\* SimpleFile._format: the payload handed on, the error raised, the strategy
\* that was invoked (None when the payload passes through)
Format(data, formatter, freg) ==
  IF Truthy(formatter)
  THEN [res |-> CallFormatter(formatter, data), used |-> formatter]
  ELSE IF Truthy(RegistryGet(freg, data.type))
  THEN [res |-> CallFormatter(RegistryGet(freg, data.type), data),
        used |-> RegistryGet(freg, data.type)]
  ELSE [res |-> FormatOk(data, TRUE), used |-> None]

\* a _render that returns an empty string when no renderer is found
RenderSkipsUnknown(data, renderer, rreg) ==
  IF Truthy(renderer)
  THEN [res |-> CallRenderer(renderer, data), used |-> renderer]
  ELSE IF Truthy(RegistryGet(rreg, data.type))
  THEN [res |-> CallRenderer(RegistryGet(rreg, data.type), data),
        used |-> RegistryGet(rreg, data.type)]
  ELSE [res |-> Ok(<<>>), used |-> None]

\* SimpleFile._render: the string returned or the error raised, and the
\* strategy that was invoked (None when none was found)
Render(data, renderer, rreg) ==
  IF Truthy(renderer)
  THEN [res |-> CallRenderer(renderer, data), used |-> renderer]
  ELSE IF Truthy(RegistryGet(rreg, data.type))
  THEN [res |-> CallRenderer(RegistryGet(rreg, data.type), data),
        used |-> RegistryGet(rreg, data.type)]
  ELSE [res |-> Raise("RendererIsUnknownError"), used |-> None]

\* ------------------------------------------------------------- render pass
NoData == [type |-> None, text |-> <<>>, level |-> 0]

\* the state a pass carries: the blocks (payloads are mutated in place by
\* some formatters), the stream, the exception raised ("none" while
\* running), the payload named in the exception message, and the log of
\* every formatter invocation and every renderer resolution, in order, with
\* the class of the payload passed and the string a renderer returned
PassStart(blocks, stream) ==
  [blocks |-> blocks, stream |-> stream, raised |-> "none", errData |-> NoData,
   log |-> <<>>]

\* a log entry
LogEntry(step, block, strategy, dataType, value) ==
  [step |-> step, block |-> block.id, strategy |-> strategy, dataType |-> dataType,
   value |-> value]

\* the loop of SimpleFile._as_stream over enumerate(self._content, start=1)
RECURSIVE AsStreamLoop(_, _, _, _, _, _)

\* a loop body that empties the stream when the renderer raises
AfterRenderRollsBack(i, st, data, r, freg, rreg, delim, enc) ==
  IF r.res.raised # "none"
  THEN [st EXCEPT !.log = Append(@, LogEntry("render", st.blocks[i], r.used,
                                              data.type, r.res.value)),
                  !.raised = r.res.raised,
                  !.stream = NewStream(st.stream.kind),
                  !.errData = IF r.res.raised = "RendererIsUnknownError"
                              THEN data ELSE NoData]
  ELSE AsStreamLoop(i + 1,
         [st EXCEPT !.log = Append(@, LogEntry("render", st.blocks[i], r.used,
                                               data.type, r.res.value)),
                    !.stream = WriteToStream(@, r.res.value,
                                             i < ContentLen(st.blocks), delim, enc)],
         freg, rreg, delim, enc)

\* the loop body after `rendered = self._render(data, block.renderer)`, r
\* being the outcome of that call: the exception propagates, or the
\* rendering is written and the loop goes on
AfterRender(i, st, data, r, freg, rreg, delim, enc) ==
  IF r.res.raised # "none"
  THEN [st EXCEPT !.log = Append(@, LogEntry("render", st.blocks[i], r.used,
                                              data.type, r.res.value)),
                  !.raised = r.res.raised,
                  !.errData = IF r.res.raised = "RendererIsUnknownError"
                              THEN data ELSE NoData]
  ELSE AsStreamLoop(i + 1,
         [st EXCEPT !.log = Append(@, LogEntry("render", st.blocks[i], r.used,
                                               data.type, r.res.value)),
                    !.stream = WriteToStream(@, r.res.value,
                                             i < ContentLen(st.blocks), delim, enc)],
         freg, rreg, delim, enc)

\* a loop body that takes the formatter off the block once it was applied
AfterFormatDetaches(i, st, dataType, f, freg, rreg, delim, enc) ==
  IF f.res.raised # "none"
  THEN [st EXCEPT !.log = Append(@, LogEntry("format", st.blocks[i], f.used,
                                              dataType, <<>>)),
                  !.raised = f.res.raised]
  ELSE AfterRender(i,
         [st EXCEPT !.log = IF f.used = None THEN @
                            ELSE Append(@, LogEntry("format", st.blocks[i], f.used,
                                                    dataType, <<>>)),
                    !.blocks[i].data = IF f.res.inplace THEN f.res.data ELSE @,
                    !.blocks[i].formatter = None],
         f.res.data, Render(f.res.data, st.blocks[i].renderer, rreg),
         freg, rreg, delim, enc)

\* the loop body after `data = self._format(block.data, block.formatter)`, f
\* being the outcome of that call and dataType the class of the payload
\* passed to it: the exception propagates, or the renderer is resolved for
\* the payload returned
AfterFormat(i, st, dataType, f, freg, rreg, delim, enc) ==
  IF f.res.raised # "none"
  THEN [st EXCEPT !.log = Append(@, LogEntry("format", st.blocks[i], f.used,
                                              dataType, <<>>)),
                  !.raised = f.res.raised]
  ELSE AfterRender(i,
         [st EXCEPT !.log = IF f.used = None THEN @
                            ELSE Append(@, LogEntry("format", st.blocks[i], f.used,
                                                    dataType, <<>>)),
                    !.blocks[i].data = IF f.res.inplace THEN f.res.data ELSE @],
         f.res.data, Render(f.res.data, st.blocks[i].renderer, rreg),
         freg, rreg, delim, enc)

AsStreamLoop(i, st, freg, rreg, delim, enc) ==
  IF i > Len(st.blocks) THEN st
  ELSE AfterFormat(i, st, st.blocks[i].data.type,
                   Format(st.blocks[i].data, st.blocks[i].formatter, freg),
                   freg, rreg, delim, enc)

\* an _as_stream that runs the loop whatever the stream is
AsStreamImplAnySink(blocks, stream, freg, rreg, delim, enc) ==
  AsStreamLoop(1, PassStart(blocks, stream), freg, rreg, delim, enc)

\* SimpleFile._as_stream: the match on the stream's type
AsStreamImpl(blocks, stream, freg, rreg, delim, enc) ==
  IF stream.kind \in {"StringIO", "BytesIO"}
  THEN AsStreamLoop(1, PassStart(blocks, stream), freg, rreg, delim, enc)
  ELSE IF stream.kind = "IOBase"
  THEN [PassStart(blocks, stream) EXCEPT !.raised = "NotImplementedError"]
  ELSE [PassStart(blocks, stream) EXCEPT !.raised = "TypeError"]

\* -------------------------------------------------------------------- inputs
\* constructor arguments of the blocks the caller adds (all pass validation)
BlockInputs ==
  { [type |-> "Heading", text |-> <<"a", "b">>, level |-> 1,
     formatter |-> None, renderer |-> None],
    [type |-> "Heading", text |-> <<"a">>, level |-> 7,
     formatter |-> None, renderer |-> None],
    [type |-> "Paragraph", text |-> <<"a", "b", "c">>, level |-> 0,
     formatter |-> None, renderer |-> None],
    [type |-> "Paragraph", text |-> <<"b", "a">>, level |-> 0,
     formatter |-> "append_bang", renderer |-> "reverse_renderer"],
    [type |-> "PlainTextData", text |-> <<"a", "b", "c">>, level |-> 0,
     formatter |-> "TextWrapFormatter", renderer |-> "FalsyRenderer"] }

\* payload classes the caller passes to the registry calls
RegistryTypes == {"Heading", "Paragraph"}

\* (data_type, renderer) arguments of set_renderer
RendererInputs ==
  { <<"Heading", "HeadingMarkdownRenderer">>,
    <<"Heading", "FalsyRenderer">>,
    <<"Paragraph", "WrappedParagraphRenderer">>,
    <<"Paragraph", "HeadingMarkdownRenderer">> }

\* (data_type, formatter) arguments of set_formatter
FormatterInputs ==
  { <<"Paragraph", "append_bang">>,
    <<"Paragraph", "TextWrapFormatter">> }

\* the sinks a caller hands to _as_stream / _write_to_stream: a text buffer,
\* a byte buffer, another stream object (an IOBase that is neither), and a
\* value that is no stream
SinkKinds == {"StringIO", "BytesIO", "IOBase", "NotAStream"}

\* blocks without instance-level strategies
PlainBlockInputs == {inp \in BlockInputs : inp.formatter = None /\ inp.renderer = None}

\* title / text arguments of add_heading, add_paragraph and by_data
BuildTexts == {<<>>, <<"a", "b">>}

\* level arguments of add_heading and by_data
BuildLevels == {0, 1, MAX_HEADING_LEVEL + 1}

\* **data of a by_data call
KwargsInputs ==
  {Kwargs(FALSE, <<>>, FALSE, 0)}
    \cup {Kwargs(TRUE, text, FALSE, 0) : text \in BuildTexts}
    \cup {Kwargs(TRUE, text, TRUE, level) : text \in BuildTexts, level \in BuildLevels}

\* blocks of a document whose formatting is looked at: a Paragraph with a
\* falsy instance formatter, one without any, one with append_bang
FormatBlockInputs ==
  { [type |-> "Paragraph", text |-> <<"a", "b">>, level |-> 0,
     formatter |-> "FalsyFormatter", renderer |-> "reverse_renderer"],
    [type |-> "Paragraph", text |-> <<"a", "b">>, level |-> 0,
     formatter |-> None, renderer |-> "reverse_renderer"],
    [type |-> "Paragraph", text |-> <<"b", "a">>, level |-> 0,
     formatter |-> "append_bang", renderer |-> "reverse_renderer"] }

\* texts of the payloads a strategy is invoked with directly
PayloadTexts ==
  { <<"a">>, <<"a", "b">>, <<"b", "a">>, <<"a", "b", "c">>, <<"a", " ", "b">>,
    <<"a", "b", " ", "c">>, <<"a", " ", "b", "c">> }

\* successfully constructed payloads of every class
PayloadInputs ==
  {[type |-> "Heading", text |-> text, level |-> level] :
     text \in PayloadTexts, level \in {1, MAX_HEADING_LEVEL, MAX_HEADING_LEVEL + 1}}
    \cup {[type |-> t, text |-> text, level |-> 0] :
            t \in {"Paragraph", "PlainTextData"}, text \in PayloadTexts}

\* blocks of a document whose formatter returns a payload of another
\* class: a Paragraph with to_heading, and one without any strategy
RetypeBlockInputs ==
  { [type |-> "Paragraph", text |-> <<"a", "b">>, level |-> 0,
     formatter |-> "to_heading", renderer |-> None],
    [type |-> "Paragraph", text |-> <<"a", "b", "c">>, level |-> 0,
     formatter |-> None, renderer |-> None] }

\* blocks of a document whose formatter modifies the payload it is given:
\* a Paragraph with reverse_in_place, one with TextWrapFormatter, and one
\* without any strategy
RepeatBlockInputs ==
  { [type |-> "Paragraph", text |-> <<"a", "b">>, level |-> 0,
     formatter |-> "reverse_in_place", renderer |-> None],
    [type |-> "Paragraph", text |-> <<"a", "b", "c">>, level |-> 0,
     formatter |-> "TextWrapFormatter", renderer |-> None],
    [type |-> "Paragraph", text |-> <<"a", "b", "c">>, level |-> 0,
     formatter |-> None, renderer |-> None] }

\* (data_type, formatter) arguments of set_formatter for a document of
\* FormatBlockInputs
FormatFormatterInputs ==
  FormatterInputs \cup { <<"Paragraph", "FalsyFormatter">> }

\* ---------------------------------------------------------------------- state
VARIABLES
  content,       \* SimpleFile._content._blocks
  formatterReg,  \* SimpleFile._formatter._formatters
  rendererReg,   \* SimpleFile._renderer._renderers
  encoding,      \* SimpleFile._encoding
  delimiter,     \* SimpleFile._delimiter
  nextId,        \* identity of the next block object constructed
  added,         \* history: the (id, name) of every block passed to add_block
  last,          \* the last call made on the document and its outcome
  otherContent,  \* Content._blocks of a second document
  supplied       \* the FileRenderer object the caller passed to SimpleFile(...)

vars == <<content, formatterReg, rendererReg, encoding, delimiter, nextId, added, last,
         otherContent, supplied>>

\* the file at the path given to to_file: absent until it is opened
NoFile == [exists |-> FALSE, bytes |-> <<>>]

\* the record describing a call; each action fills the fields it uses
\* (existed: what `data_type in self._renderer` gave in set_renderer,
\* `data_type in self._formatter` in set_formatter; again: as_str / as_stream
\* was called directly after another as_str / as_stream)
NoCall ==
  [op |-> "init", type |-> None, strategy |-> None, replace |-> FALSE, existed |-> FALSE,
   again |-> FALSE, args |-> NoKwargs, field |-> None, data |-> NoData, out |-> NoData,
   raised |-> "none", ret |-> None, str |-> <<>>, stream |-> NewStream(None),
   log |-> <<>>, errData |-> NoData, iter |-> <<>>, len |-> 0, file |-> NoFile]

\* no FileRenderer was passed to the constructor (given); otherwise same
\* tells whether SimpleFile._renderer is the object passed, and own holds
\* the entries of the object passed when it is a different object
NoRegistry == [given |-> FALSE, same |-> FALSE, own |-> EmptyRegistry]

\* SimpleFile.__init__ with default registries
Init ==
  /\ content = <<>>
  /\ formatterReg = EmptyRegistry
  /\ rendererReg = EmptyRegistry
  /\ encoding = "utf-8"
  /\ delimiter \in Delimiters
  /\ nextId = 1
  /\ added = <<>>
  /\ last = NoCall
  /\ otherContent = <<>>
  /\ supplied = NoRegistry

\* FileRenderer objects a caller passes to the constructor: FileRenderer()
\* and FileRenderer({Paragraph: WrappedParagraphRenderer()})
SuppliedRegistries ==
  { EmptyRegistry,
    RegistrySetItem(EmptyRegistry, "Paragraph", "WrappedParagraphRenderer") }

\* SimpleFile.__init__(renderer=reg): self._renderer = renderer or
\* FileRenderer(); the truth value of a FileRenderer is that of its __len__
InitSupplied ==
  /\ content = <<>>
  /\ formatterReg = EmptyRegistry
  /\ \E reg \in SuppliedRegistries :
       /\ rendererReg = IF RegistryLen(reg) # 0 THEN reg ELSE EmptyRegistry
       /\ supplied = [given |-> TRUE, same |-> RegistryLen(reg) # 0,
                      own |-> IF RegistryLen(reg) # 0 THEN EmptyRegistry ELSE reg]
  /\ encoding = "utf-8"
  /\ delimiter \in Delimiters
  /\ nextId = 1
  /\ added = <<>>
  /\ last = NoCall
  /\ otherContent = <<>>

\* the entries of the object the caller passed
SuppliedView == IF supplied.same THEN rendererReg ELSE supplied.own

\* ------------------------------------------------------------ registry calls
\* reg[t] = r by the caller on the FileRenderer it passed to the constructor
SuppliedSetItem(t, r) ==
  /\ supplied.given
  /\ IF supplied.same
     THEN /\ rendererReg' = RegistrySetItem(rendererReg, t, r)
          /\ UNCHANGED supplied
     ELSE /\ supplied' = [supplied EXCEPT !.own = RegistrySetItem(@, t, r)]
          /\ UNCHANGED rendererReg
  /\ last' = [NoCall EXCEPT !.op = "supplied_setitem", !.type = t, !.strategy = r]
  /\ UNCHANGED <<content, formatterReg, encoding, delimiter, nextId, added, otherContent>>

\* SimpleFile.set_renderer
SetRenderer(t, r, replace) ==
  /\ IF RegistryContains(rendererReg, t) /\ ~replace
     THEN /\ rendererReg' = rendererReg
          /\ last' = [NoCall EXCEPT !.op = "set_renderer", !.type = t, !.strategy = r,
                                    !.replace = replace, !.existed = TRUE,
                                    !.raised = "KeyError"]
     ELSE /\ rendererReg' = RegistrySetItem(rendererReg, t, r)
          /\ last' = [NoCall EXCEPT !.op = "set_renderer", !.type = t, !.strategy = r,
                                    !.replace = replace,
                                    !.existed = RegistryContains(rendererReg, t)]
  /\ UNCHANGED <<content, formatterReg, encoding, delimiter, nextId, added,
               otherContent, supplied>>

\* SimpleFile.set_formatter
SetFormatter(t, f, replace) ==
  /\ IF RegistryContains(formatterReg, t) /\ ~replace
     THEN /\ formatterReg' = formatterReg
          /\ last' = [NoCall EXCEPT !.op = "set_formatter", !.type = t, !.strategy = f,
                                    !.replace = replace, !.existed = TRUE,
                                    !.raised = "KeyError"]
     ELSE /\ formatterReg' = RegistrySetItem(formatterReg, t, f)
          /\ last' = [NoCall EXCEPT !.op = "set_formatter", !.type = t, !.strategy = f,
                                    !.replace = replace,
                                    !.existed = RegistryContains(formatterReg, t)]
  /\ UNCHANGED <<content, rendererReg, encoding, delimiter, nextId, added,
               otherContent, supplied>>

\* SimpleFile.get_renderer
GetRenderer(t) ==
  /\ last' = [NoCall EXCEPT !.op = "get_renderer", !.type = t,
                            !.ret = RegistryGet(rendererReg, t)]
  /\ UNCHANGED <<content, formatterReg, rendererReg, encoding, delimiter, nextId, added,
               otherContent, supplied>>

\* SimpleFile.get_formatter
GetFormatter(t) ==
  /\ last' = [NoCall EXCEPT !.op = "get_formatter", !.type = t,
                            !.ret = RegistryGet(formatterReg, t)]
  /\ UNCHANGED <<content, formatterReg, rendererReg, encoding, delimiter, nextId, added,
               otherContent, supplied>>

\* MutableMapping.pop(key, None): value = self[key]; del self[key]; return
\* value, or the default when self[key] raises KeyError
RegistryPop(reg, key) ==
  IF key \in DOMAIN reg
  THEN [reg |-> RegistryDelItem(reg, key), ret |-> reg[key], raised |-> "none"]
  ELSE [reg |-> reg, ret |-> None, raised |-> "none"]

\* SimpleFile.remove_renderer
RemoveRenderer(t) ==
  /\ rendererReg' = RegistryPop(rendererReg, t).reg
  /\ last' = [NoCall EXCEPT !.op = "remove_renderer", !.type = t,
                            !.ret = RegistryPop(rendererReg, t).ret,
                            !.raised = RegistryPop(rendererReg, t).raised]
  /\ UNCHANGED <<content, formatterReg, encoding, delimiter, nextId, added,
               otherContent, supplied>>

\* SimpleFile.remove_formatter
RemoveFormatter(t) ==
  /\ formatterReg' = RegistryPop(formatterReg, t).reg
  /\ last' = [NoCall EXCEPT !.op = "remove_formatter", !.type = t,
                            !.ret = RegistryPop(formatterReg, t).ret,
                            !.raised = RegistryPop(formatterReg, t).raised]
  /\ UNCHANGED <<content, rendererReg, encoding, delimiter, nextId, added,
               otherContent, supplied>>

\* ------------------------------------------------------------- content calls
\* BaseBlock.__init__ with a caller supplied name
NewBlock(id, inp, name) ==
  [id |-> id, name |-> name,
   data |-> [type |-> inp.type, text |-> inp.text, level |-> inp.level],
   formatter |-> inp.formatter, renderer |-> inp.renderer]

\* Content.add_block on a freshly constructed block
AddBlock(inp, name) ==
  /\ nextId <= MaxBlocks
  /\ content' = DictSetItem(content, NewBlock(nextId, inp, name))
  /\ nextId' = nextId + 1
  /\ added' = Append(added, [id |-> nextId, name |-> name])
  /\ last' = [NoCall EXCEPT !.op = "add_block", !.ret = name]
  /\ UNCHANGED <<formatterReg, rendererReg, encoding, delimiter, otherContent, supplied>>

\* other.content.add_block(block) for the block object in slot i of this
\* document's content
AddBlockToOther(i) ==
  /\ i \in 1..Len(content)
  /\ otherContent' = DictSetItem(otherContent, content[i])
  /\ last' = [NoCall EXCEPT !.op = "other_add_block", !.ret = content[i].name]
  /\ UNCHANGED <<content, formatterReg, rendererReg, encoding, delimiter, nextId, added,
                 supplied>>

\* HeadingBlock.by_data / ParagraphBlock.by_data called on its own; the
\* block constructed is not added to any Content
ByData(cls, kwargs) ==
  /\ last' = [NoCall EXCEPT
                !.op = "by_data", !.type = cls, !.args = kwargs,
                !.raised = IF cls = "Heading" THEN HeadingBlockByData(kwargs).raised
                           ELSE ParagraphBlockByData(kwargs).raised,
                !.field = IF cls = "Heading" THEN HeadingBlockByData(kwargs).field
                          ELSE ParagraphBlockByData(kwargs).field]
  /\ UNCHANGED <<content, formatterReg, rendererReg, encoding, delimiter, nextId, added,
               otherContent, supplied>>

\* WithHeading.add_heading: HeadingKwargs(text=title[, level=level]), then
\* HeadingBlock.by_data, then add_block (levelGiven: level is not None)
AddHeading(title, levelGiven, level, name) ==
  LET kwargs == Kwargs(TRUE, title, levelGiven, IF levelGiven THEN level ELSE 0)
  IN IF HeadingBlockByData(kwargs).raised # "none"
     THEN /\ last' = [NoCall EXCEPT !.op = "add_heading", !.type = "Heading",
                                    !.args = kwargs,
                                    !.raised = HeadingBlockByData(kwargs).raised,
                                    !.field = HeadingBlockByData(kwargs).field]
          /\ UNCHANGED <<content, formatterReg, rendererReg, encoding, delimiter,
                         nextId, added, otherContent, supplied>>
     ELSE /\ nextId <= MaxAdds
          /\ content' = DictSetItem(content,
                           NewBlock(nextId, [type |-> "Heading", text |-> title,
                                             level |-> HeadingLevel(kwargs),
                                             formatter |-> None, renderer |-> None],
                                    name))
          /\ nextId' = nextId + 1
          /\ added' = Append(added, [id |-> nextId, name |-> name])
          /\ last' = [NoCall EXCEPT !.op = "add_heading", !.type = "Heading",
                                    !.args = kwargs, !.ret = name]
          /\ UNCHANGED <<formatterReg, rendererReg, encoding, delimiter, otherContent,
                         supplied>>

\* WithParagraph.add_paragraph: ParagraphBlock.by_data(text=text), then
\* add_block
AddParagraph(text, name) ==
  LET kwargs == Kwargs(TRUE, text, FALSE, 0)
  IN IF ParagraphBlockByData(kwargs).raised # "none"
     THEN /\ last' = [NoCall EXCEPT !.op = "add_paragraph", !.type = "Paragraph",
                                    !.args = kwargs,
                                    !.raised = ParagraphBlockByData(kwargs).raised,
                                    !.field = ParagraphBlockByData(kwargs).field]
          /\ UNCHANGED <<content, formatterReg, rendererReg, encoding, delimiter,
                         nextId, added, otherContent, supplied>>
     ELSE /\ nextId <= MaxAdds
          /\ content' = DictSetItem(content,
                           NewBlock(nextId, [type |-> "Paragraph", text |-> text,
                                             level |-> 0,
                                             formatter |-> None, renderer |-> None],
                                    name))
          /\ nextId' = nextId + 1
          /\ added' = Append(added, [id |-> nextId, name |-> name])
          /\ last' = [NoCall EXCEPT !.op = "add_paragraph", !.type = "Paragraph",
                                    !.args = kwargs, !.ret = name]
          /\ UNCHANGED <<formatterReg, rendererReg, encoding, delimiter, otherContent,
                         supplied>>

\* renderer(data) called directly on a class based renderer
RendererCall(r, data) ==
  /\ last' = [NoCall EXCEPT !.op = "renderer_call", !.strategy = r, !.data = data,
                            !.raised = CallRenderer(r, data).raised,
                            !.str = CallRenderer(r, data).value]
  /\ UNCHANGED <<content, formatterReg, rendererReg, encoding, delimiter, nextId, added,
               otherContent, supplied>>

\* formatter(data) called directly on a class based formatter; out is the
\* payload object afterwards
FormatterCall(f, data) ==
  /\ last' = [NoCall EXCEPT !.op = "formatter_call", !.strategy = f, !.data = data,
                            !.raised = CallFormatter(f, data).raised,
                            !.out = CallFormatter(f, data).data]
  /\ UNCHANGED <<content, formatterReg, rendererReg, encoding, delimiter, nextId, added,
               otherContent, supplied>>

\* list(content) and len(content)
Iterate ==
  /\ last' = [NoCall EXCEPT !.op = "iter", !.iter = ContentIter(content),
                            !.len = ContentLen(content)]
  /\ UNCHANGED <<content, formatterReg, rendererReg, encoding, delimiter, nextId, added,
               otherContent, supplied>>

\* -------------------------------------------------------------- render calls
\* SimpleFile.as_str: self._as_stream(StringIO()).getvalue()
AsStr ==
  LET res == AsStreamImpl(content, NewStream("StringIO"), formatterReg, rendererReg,
                          delimiter, encoding)
  IN /\ content' = res.blocks
     /\ last' = [NoCall EXCEPT !.op = "as_str", !.raised = res.raised,
                               !.again = (last.op \in {"as_str", "as_stream"}),
                               !.str = IF res.raised = "none"
                                       THEN StreamGetValue(res.stream) ELSE <<>>,
                               !.stream = res.stream, !.log = res.log,
                               !.errData = res.errData]
     /\ UNCHANGED <<formatterReg, rendererReg, encoding, delimiter, nextId, added,
               otherContent, supplied>>

\* SimpleFile.as_stream: self._as_stream(BytesIO())
AsStream ==
  LET res == AsStreamImpl(content, NewStream("BytesIO"), formatterReg, rendererReg,
                          delimiter, encoding)
  IN /\ content' = res.blocks
     /\ last' = [NoCall EXCEPT !.op = "as_stream", !.raised = res.raised,
                               !.again = (last.op \in {"as_str", "as_stream"}),
                               !.stream = res.stream, !.log = res.log,
                               !.errData = res.errData]
     /\ UNCHANGED <<formatterReg, rendererReg, encoding, delimiter, nextId, added,
               otherContent, supplied>>

\* SimpleFile.to_file: path.open("wb") creates or truncates the file, then
\* file.write(self.as_stream().read()); the file is closed by the with block,
\* also when the pass raises
ToFile ==
  LET res == AsStreamImpl(content, NewStream("BytesIO"), formatterReg, rendererReg,
                          delimiter, encoding)
  IN /\ content' = res.blocks
     /\ last' = [NoCall EXCEPT !.op = "to_file", !.raised = res.raised,
                               !.file = [exists |-> TRUE,
                                         bytes |-> IF res.raised = "none"
                                                   THEN StreamRead(res.stream) ELSE <<>>],
                               !.stream = res.stream, !.log = res.log,
                               !.errData = res.errData]
     /\ UNCHANGED <<formatterReg, rendererReg, encoding, delimiter, nextId, added,
                    otherContent, supplied>>

\* SimpleFile._as_stream called with a fresh sink of the given kind
AsStreamInto(kind) ==
  LET res == AsStreamImpl(content, NewStream(kind), formatterReg, rendererReg,
                          delimiter, encoding)
  IN /\ content' = res.blocks
     /\ last' = [NoCall EXCEPT !.op = "_as_stream", !.raised = res.raised,
                               !.stream = res.stream, !.log = res.log,
                               !.errData = res.errData]
     /\ UNCHANGED <<formatterReg, rendererReg, encoding, delimiter, nextId, added,
               otherContent, supplied>>

\* SimpleFile._write_to_stream called with a fresh sink of the given kind
WriteToStreamInto(kind, rendered, write_delimiter) ==
  /\ last' = [NoCall EXCEPT
                !.op = "_write_to_stream",
                !.raised = WriteToStreamMatch(NewStream(kind), rendered, write_delimiter,
                                              delimiter, encoding).raised,
                !.stream = WriteToStreamMatch(NewStream(kind), rendered, write_delimiter,
                                              delimiter, encoding).stream]
  /\ UNCHANGED <<content, formatterReg, rendererReg, encoding, delimiter, nextId, added,
               otherContent, supplied>>

Next ==
  \/ \E p \in RendererInputs, replace \in BOOLEAN : SetRenderer(p[1], p[2], replace)
  \/ \E p \in FormatterInputs, replace \in BOOLEAN : SetFormatter(p[1], p[2], replace)
  \/ \E t \in RegistryTypes : GetRenderer(t)
  \/ \E t \in RegistryTypes : GetFormatter(t)
  \/ \E t \in RegistryTypes : RemoveRenderer(t)
  \/ \E t \in RegistryTypes : RemoveFormatter(t)
  \/ \E inp \in BlockInputs, name \in Names : AddBlock(inp, name)
  \/ Iterate
  \/ AsStr
  \/ AsStream
  \/ \E kind \in SinkKinds : AsStreamInto(kind)
  \/ \E kind \in SinkKinds, wd \in BOOLEAN : WriteToStreamInto(kind, <<"a">>, wd)
  \/ \E cls \in RegistryTypes, kwargs \in KwargsInputs : ByData(cls, kwargs)
  \/ \E title \in BuildTexts, levelGiven \in BOOLEAN, level \in BuildLevels,
          name \in Names :
       AddHeading(title, levelGiven, level, name)
  \/ \E text \in BuildTexts, name \in Names : AddParagraph(text, name)
  \/ \E r \in ClassRenderers, data \in PayloadInputs : RendererCall(r, data)
  \/ \E f \in ClassFormatters, data \in PayloadInputs : FormatterCall(f, data)
  \/ \E i \in 1..MaxBlocks : AddBlockToOther(i)
  \/ ToFile
  \/ \E p \in RendererInputs : SuppliedSetItem(p[1], p[2])

Spec == Init /\ [][Next]_vars

\* the content calls alone
NextContent ==
  \/ \E inp \in BlockInputs, name \in Names : AddBlock(inp, name)
  \/ Iterate

SpecContent == Init /\ [][NextContent]_vars

\* the registry calls alone
NextRegistry ==
  \/ \E p \in RendererInputs, replace \in BOOLEAN : SetRenderer(p[1], p[2], replace)
  \/ \E p \in FormatterInputs, replace \in BOOLEAN : SetFormatter(p[1], p[2], replace)
  \/ \E t \in RegistryTypes : GetRenderer(t)
  \/ \E t \in RegistryTypes : GetFormatter(t)
  \/ \E t \in RegistryTypes : RemoveRenderer(t)
  \/ \E t \in RegistryTypes : RemoveFormatter(t)

SpecRegistry == Init /\ [][NextRegistry]_vars

\* assembling a document and rendering it
NextRender ==
  \/ \E p \in RendererInputs, replace \in BOOLEAN : SetRenderer(p[1], p[2], replace)
  \/ \E p \in FormatterInputs, replace \in BOOLEAN : SetFormatter(p[1], p[2], replace)
  \/ \E inp \in BlockInputs, name \in Names : AddBlock(inp, name)
  \/ AsStr
  \/ AsStream

SpecRender == Init /\ [][NextRender]_vars

\* registering formatters, adding blocks and rendering to a string
NextFormat ==
  \/ \E p \in FormatFormatterInputs, replace \in BOOLEAN : SetFormatter(p[1], p[2], replace)
  \/ \E inp \in FormatBlockInputs, name \in Names : AddBlock(inp, name)
  \/ AsStr

SpecFormat == Init /\ [][NextFormat]_vars

\* rendering into sinks of every kind
NextSink ==
  \/ \E p \in RendererInputs, replace \in BOOLEAN : SetRenderer(p[1], p[2], replace)
  \/ \E inp \in PlainBlockInputs, name \in Names : AddBlock(inp, name)
  \/ \E kind \in SinkKinds : AsStreamInto(kind)
  \/ \E kind \in SinkKinds, wd \in BOOLEAN : WriteToStreamInto(kind, <<"a">>, wd)

SpecSink == Init /\ [][NextSink]_vars

\* constructing blocks and adding them through the document's helpers
NextBuild ==
  \/ \E cls \in RegistryTypes, kwargs \in KwargsInputs : ByData(cls, kwargs)
  \/ \E title \in BuildTexts, levelGiven \in BOOLEAN, level \in BuildLevels,
          name \in Names :
       AddHeading(title, levelGiven, level, name)
  \/ \E text \in BuildTexts, name \in Names : AddParagraph(text, name)
  \/ Iterate

SpecBuild == Init /\ [][NextBuild]_vars

\* registering and removing renderers around the adding of blocks, then
\* rendering
NextLifecycle ==
  \/ \E p \in RendererInputs, replace \in BOOLEAN : SetRenderer(p[1], p[2], replace)
  \/ \E t \in RegistryTypes : RemoveRenderer(t)
  \/ \E inp \in PlainBlockInputs, name \in Names : AddBlock(inp, name)
  \/ AsStr

SpecLifecycle == Init /\ [][NextLifecycle]_vars

\* registering renderers, adding blocks whose formatter changes the class of
\* the payload, and rendering
NextRetype ==
  \/ \E p \in RendererInputs, replace \in BOOLEAN : SetRenderer(p[1], p[2], replace)
  \/ \E inp \in RetypeBlockInputs, name \in Names : AddBlock(inp, name)
  \/ AsStr

SpecRetype == Init /\ [][NextRetype]_vars

\* class based strategies invoked directly, outside any registry
NextStrategy ==
  \/ \E r \in ClassRenderers, data \in PayloadInputs : RendererCall(r, data)
  \/ \E f \in ClassFormatters, data \in PayloadInputs : FormatterCall(f, data)

SpecStrategy == Init /\ [][NextStrategy]_vars

\* two documents and the blocks added to their contents
NextShare ==
  \/ \E inp \in PlainBlockInputs, name \in Names : AddBlock(inp, name)
  \/ \E i \in 1..MaxBlocks : AddBlockToOther(i)
  \/ Iterate

SpecShare == Init /\ [][NextShare]_vars

\* registering renderers, adding blocks without strategies of their own,
\* rendering to a string and writing to a file
NextFile ==
  \/ \E p \in RendererInputs, replace \in BOOLEAN : SetRenderer(p[1], p[2], replace)
  \/ \E inp \in PlainBlockInputs, name \in Names : AddBlock(inp, name)
  \/ AsStr
  \/ ToFile

SpecFile == Init /\ [][NextFile]_vars

\* a document constructed with a FileRenderer of the caller, who goes on
\* using that object
NextSupplied ==
  \/ \E p \in RendererInputs : SuppliedSetItem(p[1], p[2])
  \/ \E p \in RendererInputs, replace \in BOOLEAN : SetRenderer(p[1], p[2], replace)
  \/ \E inp \in PlainBlockInputs, name \in Names : AddBlock(inp, name)
  \/ AsStr

SpecSupplied == InitSupplied /\ [][NextSupplied]_vars

\* registering renderers, adding blocks whose formatter modifies the payload
\* in place, and rendering again and again
NextRepeat ==
  \/ \E p \in RendererInputs, replace \in BOOLEAN : SetRenderer(p[1], p[2], replace)
  \/ \E inp \in RepeatBlockInputs, name \in Names : AddBlock(inp, name)
  \/ AsStr

SpecRepeat == Init /\ [][NextRepeat]_vars

\* ===================================================================== claims
IsRenderCall == last.op \in {"as_str", "as_stream"}

\* the block of the content with the given identity
BlockById(id) == content[CHOOSE i \in 1..Len(content) : content[i].id = id]

\* the entries of a pass log that are renderer resolutions
RenderEntries(log) == SelectSeq(log, LAMBDA e : e.step = "render")

\* C1: when a render pass resolves the renderer of a block that has no
\* instance-level renderer and whose (formatted) payload class has no entry
\* in the renderer registry, the pass raises RendererIsUnknownError, the
\* message names the payload of that class, nothing is processed after it;
\* and a pass that returns normally has rendered every block of the content
\* with some renderer (no block is skipped).
C1_UnknownRendererFails ==
  IsRenderCall =>
    /\ \A k \in 1..Len(last.log) :
         ( /\ last.log[k].step = "render"
           /\ BlockById(last.log[k].block).renderer = None
           /\ ~RegistryContains(rendererReg, last.log[k].dataType) )
         => /\ last.raised = "RendererIsUnknownError"
            /\ last.errData.type = last.log[k].dataType
            /\ k = Len(last.log)
    /\ last.raised = "none" =>
         /\ [i \in 1..Len(RenderEntries(last.log)) |-> RenderEntries(last.log)[i].block]
              = ContentIter(content)
         /\ \A i \in 1..Len(RenderEntries(last.log)) :
              RenderEntries(last.log)[i].strategy # None

\* a pass over two blocks failed at a Heading without any renderer
C1_Witness ==
  /\ IsRenderCall
  /\ Len(content) = 2
  /\ last.raised = "RendererIsUnknownError"
  /\ last.errData.type = "Heading"
  /\ ~RegistryContains(rendererReg, "Heading")
  /\ BlockById(last.log[Len(last.log)].block).renderer = None

\* C2 (as claimed): when every block's payload class has a renderer
\* registered through set_renderer, the pass returns normally and no class
\* based renderer is invoked on a payload outside its supported data types.
C2_RegisteredAlwaysRenders ==
  ( /\ IsRenderCall
    /\ \A i \in 1..Len(content) : RegistryContains(rendererReg, content[i].data.type) )
  => /\ last.raised = "none"
     /\ \A k \in 1..Len(last.log) :
          ( last.log[k].step = "render" /\ last.log[k].strategy \in ClassRenderers )
          => last.log[k].dataType \in RendererSupportedDataTypes(last.log[k].strategy)

\* C3 (as claimed): set_renderer / set_formatter for a class that already
\* has an entry, replace being false, raises KeyError and leaves both
\* registries as they were, so that get_* still returns the first strategy;
\* and a render that follows uses the first strategy for every block of that
\* class that has no instance-level renderer.
C3_ConflictKeepsFirst ==
  /\ [][ /\ ( last'.op = "set_renderer" /\ ~last'.replace
              /\ RegistryContains(rendererReg, last'.type) )
            => ( /\ last'.raised = "KeyError"
                 /\ rendererReg' = rendererReg /\ formatterReg' = formatterReg
                 /\ RegistryGet(rendererReg', last'.type) = rendererReg[last'.type] )
         /\ ( last'.op = "set_formatter" /\ ~last'.replace
              /\ RegistryContains(formatterReg, last'.type) )
            => ( /\ last'.raised = "KeyError"
                 /\ rendererReg' = rendererReg /\ formatterReg' = formatterReg
                 /\ RegistryGet(formatterReg', last'.type) = formatterReg[last'.type] )
       ]_vars
  /\ [][ ( /\ last.op = "set_renderer" /\ last.raised = "KeyError"
           /\ last'.op \in {"as_str", "as_stream"} )
         => \A k \in 1..Len(last'.log) :
              ( /\ last'.log[k].step = "render"
                /\ last'.log[k].dataType = last.type
                /\ BlockById(last'.log[k].block).renderer = None )
              => last'.log[k].strategy = rendererReg[last.type]
       ]_vars

\* C4 (as claimed): remove_renderer / remove_formatter for a class without
\* an entry raises a "not registered" error and leaves the registry as it was.
C4_RemoveAbsentFails ==
  [][ /\ ( last'.op = "remove_renderer" /\ ~RegistryContains(rendererReg, last'.type) )
         => ( /\ last'.raised = "RendererIsNotRegisteredError"
              /\ rendererReg' = rendererReg )
      /\ ( last'.op = "remove_formatter" /\ ~RegistryContains(formatterReg, last'.type) )
         => ( /\ last'.raised = "FormatterIsNotRegisteredError"
              /\ formatterReg' = formatterReg )
    ]_vars

\* C5: remove_renderer / remove_formatter for a class that has an entry
\* returns the registered strategy without raising and deletes the entry:
\* get_* for the class then finds nothing, the registry is one entry
\* smaller, the entries of the other classes and the other registry are
\* unchanged.
C5_RemoveReturnsAndDeletes ==
  [][ /\ ( last'.op = "remove_renderer" /\ RegistryContains(rendererReg, last'.type) )
         => ( /\ last'.raised = "none"
              /\ last'.ret = rendererReg[last'.type]
              /\ RegistryGet(rendererReg', last'.type) = None
              /\ ~RegistryContains(rendererReg', last'.type)
              /\ RegistryLen(rendererReg') = RegistryLen(rendererReg) - 1
              /\ \A u \in DOMAIN rendererReg \ {last'.type} :
                   RegistryGet(rendererReg', u) = rendererReg[u]
              /\ formatterReg' = formatterReg )
      /\ ( last'.op = "remove_formatter" /\ RegistryContains(formatterReg, last'.type) )
         => ( /\ last'.raised = "none"
              /\ last'.ret = formatterReg[last'.type]
              /\ RegistryGet(formatterReg', last'.type) = None
              /\ ~RegistryContains(formatterReg', last'.type)
              /\ RegistryLen(formatterReg') = RegistryLen(formatterReg) - 1
              /\ \A u \in DOMAIN formatterReg \ {last'.type} :
                   RegistryGet(formatterReg', u) = formatterReg[u]
              /\ rendererReg' = rendererReg )
    ]_vars

\* a renderer was removed and returned while the other class kept its entry
C5_Witness ==
  /\ last.op = "remove_renderer"
  /\ last.ret = "WrappedParagraphRenderer"
  /\ ~RegistryContains(rendererReg, "Paragraph")
  /\ RegistryContains(rendererReg, "Heading")

\* C6 (as claimed): the stream as_stream returns is positioned at offset 0,
\* so that read() yields the complete encoded rendering.
C6_StreamAtStart ==
  ( last.op = "as_stream" /\ last.raised = "none" )
  => /\ last.stream.pos = 0
     /\ StreamRead(last.stream) = last.stream.buf

\* strings joined with the delimiter between them, none after the last
RECURSIVE JoinWith(_, _)
JoinWith(strings, delim) ==
  IF strings = <<>> THEN <<>>
  ELSE IF Len(strings) = 1 THEN strings[1]
  ELSE strings[1] \o delim \o JoinWith(Tail(strings), delim)

\* C7: the string as_str returns is the renderings of the blocks, one per
\* block and in the order the Content iterates them, with the configured
\* delimiter after each rendering but the last; it is empty for an empty
\* Content.
C7_JoinedInOrder ==
  ( last.op = "as_str" /\ last.raised = "none" )
  => /\ [i \in 1..Len(RenderEntries(last.log)) |-> RenderEntries(last.log)[i].block]
          = ContentIter(content)
     /\ last.str = JoinWith([i \in 1..Len(RenderEntries(last.log)) |->
                               RenderEntries(last.log)[i].value], delimiter)
     /\ (content = <<>> => last.str = <<>>)

\* a Markdown heading "ab" and a wrapped paragraph "abc" were rendered
C7_Witness ==
  /\ last.op = "as_str" /\ last.raised = "none"
  /\ Len(content) = 2
  /\ delimiter = <<"\n">>
  /\ last.str = <<"#", " ", "a", "b", "\n">> \o <<"\n">> \o Fill(<<"a", "b", "c">>, WrapWidth)

\* the names passed to add_block so far
AddedNames == {added[i].name : i \in 1..Len(added)}

\* C8: after add_block calls with pairwise distinct names, iterating the
\* Content yields exactly the blocks added, in the order they were added;
\* and an iteration that directly follows another yields the same sequence.
C8_IterationInInsertionOrder ==
  /\ []( ( last.op = "iter" /\ Cardinality(AddedNames) = Len(added) )
         => last.iter = [i \in 1..Len(added) |-> added[i].id] )
  /\ [][ ( last.op = "iter" /\ last'.op = "iter" ) => last'.iter = last.iter ]_vars

\* two blocks with different names were added and then iterated
C8_Witness ==
  /\ last.op = "iter"
  /\ Len(added) = 2 /\ added[1].name # added[2].name
  /\ last.iter = <<1, 2>>

\* C9: the length of the Content is the number of distinct names passed to
\* add_block; add_block returns the name of the block it was given; adding
\* under a name already held does not change the length.
C9_LenCountsDistinctNames ==
  /\ []( /\ ContentLen(content) = Cardinality(AddedNames)
         /\ last.op = "iter" => last.len = Cardinality(AddedNames)
         /\ last.op = "add_block" => last.ret = added[Len(added)].name )
  /\ [][ ( last'.op = "add_block" /\ NameIndex(content, last'.ret) # 0 )
         => ContentLen(content') = ContentLen(content) ]_vars

\* a second block was added under the name of the first
C9_Witness ==
  /\ last.op = "add_block"
  /\ Len(added) = 2 /\ added[1].name = added[2].name
  /\ ContentLen(content) = 1

\* C10 (as claimed): a block that carries an instance-level renderer is
\* rendered by that renderer and no other, and its renderer resolution never
\* fails with RendererIsUnknownError, whatever the registry holds.
C10_InstanceRendererUsed ==
  IsRenderCall =>
    \A k \in 1..Len(last.log) :
      ( last.log[k].step = "render" /\ BlockById(last.log[k].block).renderer # None )
      => /\ last.log[k].strategy = BlockById(last.log[k].block).renderer
         /\ ~(k = Len(last.log) /\ last.raised = "RendererIsUnknownError")

\* the positions of a pass log at which a formatter was invoked for a block
FormatCalls(log, id) ==
  {k \in 1..Len(log) : log[k].step = "format" /\ log[k].block = id}

\* the blocks a pass has processed
Processed(log) == {log[k].block : k \in 1..Len(log)}

\* C11 (as claimed): in a render pass the formatter of a block is resolved
\* in three tiers: a block that carries an instance-level formatter has that
\* formatter applied and no other; otherwise the formatter registered for the
\* payload's class is applied when there is one; otherwise no formatter is
\* invoked, the payload reaches the renderer as it is and formatting raises
\* nothing.
C11_FormatterThreeTiers ==
  IsRenderCall =>
    \A id \in Processed(last.log) :
      /\ BlockById(id).formatter # None
         => /\ Cardinality(FormatCalls(last.log, id)) = 1
            /\ \A k \in FormatCalls(last.log, id) :
                 last.log[k].strategy = BlockById(id).formatter
      /\ ( BlockById(id).formatter = None
           /\ RegistryContains(formatterReg, BlockById(id).data.type) )
         => /\ Cardinality(FormatCalls(last.log, id)) = 1
            /\ \A k \in FormatCalls(last.log, id) :
                 last.log[k].strategy = formatterReg[BlockById(id).data.type]
      /\ ( BlockById(id).formatter = None
           /\ ~RegistryContains(formatterReg, BlockById(id).data.type) )
         => /\ FormatCalls(last.log, id) = {}
            /\ \A k \in 1..Len(last.log) :
                 ( last.log[k].block = id /\ last.log[k].step = "render"
                   /\ last.log[k].strategy = "reverse_renderer" )
                 => last.log[k].value = Reverse(BlockById(id).data.text)

\* the characters of the rendered texts, all of them ASCII
AsciiChars == {"a", "b", "c", "#", " ", "!", "-", "\n"}

\* bytes.decode(encoding) of an encoded ASCII text: character by character,
\* each the one whose encoding is the next byte
RECURSIVE Decode(_, _)
Decode(bytes, enc) ==
  IF bytes = <<>> THEN <<>>
  ELSE <<CHOOSE c \in AsciiChars : Utf8(c) = <<Head(bytes)>> >> \o Decode(Tail(bytes), enc)

C13_ReplaceOverwrites ==
  [][ /\ last'.op = "set_renderer"
         => /\ ( RegistryContains(rendererReg, last'.type) /\ last'.replace )
               => /\ last'.raised = "none"
                  /\ RegistryGet(rendererReg', last'.type) = last'.strategy
                  /\ RegistryLen(rendererReg') = RegistryLen(rendererReg)
                  /\ DOMAIN rendererReg' = DOMAIN rendererReg
            /\ ~RegistryContains(rendererReg, last'.type)
               => /\ last'.raised = "none"
                  /\ RegistryGet(rendererReg', last'.type) = last'.strategy
                  /\ RegistryLen(rendererReg') = RegistryLen(rendererReg) + 1
            /\ \A u \in DOMAIN rendererReg \ {last'.type} :
                 RegistryGet(rendererReg', u) = rendererReg[u]
            /\ formatterReg' = formatterReg
      /\ last'.op = "set_formatter"
         => /\ ( RegistryContains(formatterReg, last'.type) /\ last'.replace )
               => /\ last'.raised = "none"
                  /\ RegistryGet(formatterReg', last'.type) = last'.strategy
                  /\ RegistryLen(formatterReg') = RegistryLen(formatterReg)
                  /\ DOMAIN formatterReg' = DOMAIN formatterReg
            /\ ~RegistryContains(formatterReg, last'.type)
               => /\ last'.raised = "none"
                  /\ RegistryGet(formatterReg', last'.type) = last'.strategy
                  /\ RegistryLen(formatterReg') = RegistryLen(formatterReg) + 1
            /\ \A u \in DOMAIN formatterReg \ {last'.type} :
                 RegistryGet(formatterReg', u) = formatterReg[u]
            /\ rendererReg' = rendererReg
    ]_vars

\* the renderer of Heading was replaced by another while Paragraph kept its
\* own
C13_Witness ==
  /\ last.op = "set_renderer" /\ last.replace /\ last.existed
  /\ last.raised = "none"
  /\ last.type = "Heading" /\ last.strategy = "FalsyRenderer"
  /\ rendererReg["Heading"] = "FalsyRenderer"
  /\ RegistryLen(rendererReg) = Cardinality(RegistryTypes)

\* C14: get_renderer / get_formatter raises nothing and changes no registry;
\* for a class without an entry it returns None, for a class with an entry
\* it returns the strategy registered; and that strategy is the one last
\* successfully set: a get that follows a successful set_* for the class
\* returns the strategy just set, and a refused set_* leaves the entry the
\* class already had.
C14_GetReturnsLastSet ==
  /\ [][  /\ last'.op = "get_renderer"
             => /\ last'.raised = "none"
                /\ rendererReg' = rendererReg /\ formatterReg' = formatterReg
                /\ ~RegistryContains(rendererReg, last'.type) => last'.ret = None
                /\ RegistryContains(rendererReg, last'.type)
                   => last'.ret = rendererReg[last'.type]
          /\ last'.op = "get_formatter"
             => /\ last'.raised = "none"
                /\ rendererReg' = rendererReg /\ formatterReg' = formatterReg
                /\ ~RegistryContains(formatterReg, last'.type) => last'.ret = None
                /\ RegistryContains(formatterReg, last'.type)
                   => last'.ret = formatterReg[last'.type]
        ]_vars
  /\ [][  /\ ( last.op = "set_renderer" /\ last.raised = "none"
               /\ last'.op = "get_renderer" /\ last'.type = last.type )
             => last'.ret = last.strategy
          /\ ( last.op = "set_formatter" /\ last.raised = "none"
               /\ last'.op = "get_formatter" /\ last'.type = last.type )
             => last'.ret = last.strategy
        ]_vars
  /\ [][  /\ ( last'.op = "set_renderer" /\ last'.raised # "none" )
             => rendererReg' = rendererReg
          /\ ( last'.op = "set_formatter" /\ last'.raised # "none" )
             => formatterReg' = formatterReg
        ]_vars

\* get_renderer returned the registered renderer of Heading, an object whose
\* truth value is False
C14_Witness ==
  /\ last.op = "get_renderer" /\ last.type = "Heading"
  /\ last.ret = "FalsyRenderer"
  /\ RegistryContains(rendererReg, "Heading")
  /\ ~RegistryContains(rendererReg, "Paragraph")

\* C15: _as_stream and _write_to_stream given a sink that is neither a text
\* buffer nor a byte buffer raise NotImplementedError when the sink is
\* another stream object and TypeError when it is no stream; no formatter
\* and no renderer has been invoked and nothing has been written, whether
\* the Content holds blocks or is empty.
C15_UnsupportedSinkFails ==
  ( last.op \in {"_as_stream", "_write_to_stream"}
    /\ last.stream.kind \notin {"StringIO", "BytesIO"} )
  => /\ last.stream.kind = "IOBase" => last.raised = "NotImplementedError"
     /\ last.stream.kind # "IOBase" => last.raised = "TypeError"
     /\ last.log = <<>>
     /\ last.stream.buf = <<>>

\* _as_stream refused a stream object of another kind although the Content
\* holds a Heading whose class has a renderer
C15_Witness ==
  /\ last.op = "_as_stream"
  /\ last.stream.kind = "IOBase"
  /\ last.raised = "NotImplementedError"
  /\ Len(content) >= 1
  /\ content[1].data.type = "Heading"
  /\ RegistryGet(rendererReg, "Heading") = "HeadingMarkdownRenderer"

\* what a pass resolved: for every formatter invocation and every renderer
\* resolution, in order, the block and the strategy selected
Resolutions(log) ==
  [k \in 1..Len(log) |-> <<log[k].step, log[k].block, log[k].strategy>>]

\* C16: a render pass that directly follows another (nothing registered,
\* removed or added in between) resolves, block by block, the same formatter
\* and the same renderer as the pass before it.
C16_ResolutionIdempotent ==
  [][ ( last.op \in {"as_str", "as_stream"} /\ last'.op \in {"as_str", "as_stream"} )
      => Resolutions(last'.log) = Resolutions(last.log) ]_vars

\* a second pass in a row resolved a formatter and a renderer for each of
\* two blocks, one through the block, one through the registries
C16_Witness ==
  /\ IsRenderCall /\ last.again
  /\ Len(content) = 2
  /\ Len(last.log) = 4
  /\ \E k \in 1..Len(last.log) :
       last.log[k].step = "format" /\ BlockById(last.log[k].block).formatter = None
  /\ \E k \in 1..Len(last.log) :
       last.log[k].step = "render" /\ BlockById(last.log[k].block).renderer # None

\* the payload passes the validation of its class's construction
ConstructedValid(data) ==
  data.type = "Heading" => HeadingPostInit(data.text, data.level).raised = "none"

\* C17 (as claimed): payload-validity errors are raised at construction
\* only: a render pass over blocks that were all constructed successfully
\* never raises DataIsMissingError or DataIsInvalidError.
C17_ValidityErrorsOnlyAtConstruction ==
  ( IsRenderCall /\ \A i \in 1..Len(content) : ConstructedValid(content[i].data) )
  => last.raised \notin {"DataIsMissingError", "DataIsInvalidError"}

\* C18: constructing a block without the minimal data fails and adds
\* nothing: by_data without 'text' (either class) and a Heading with empty
\* text raise DataIsMissingError with field 'text'; a Heading with a text
\* and a level below 1 raises DataIsInvalidError with field 'level'; an
\* add_heading / add_paragraph that raises leaves the Content as it was.
C18_ConstructionFailsEagerly ==
  /\ []( last.op \in {"by_data", "add_heading", "add_paragraph"}
         => /\ ~last.args.hasText
               => last.raised = "DataIsMissingError" /\ last.field = "text"
            /\ ( last.type = "Heading" /\ last.args.hasText /\ last.args.text = <<>> )
               => last.raised = "DataIsMissingError" /\ last.field = "text"
            /\ ( last.type = "Heading" /\ last.args.hasText /\ last.args.text # <<>>
                 /\ last.args.hasLevel /\ last.args.level < 1 )
               => last.raised = "DataIsInvalidError" /\ last.field = "level" )
  /\ [][ ( last'.op \in {"add_heading", "add_paragraph"} /\ last'.raised # "none" )
         => /\ content' = content
            /\ added' = added ]_vars

\* add_heading with level 0 was refused while the Content held one block
C18_Witness ==
  /\ last.op = "add_heading"
  /\ last.args.level = 0 /\ last.args.hasLevel /\ last.args.text # <<>>
  /\ last.raised = "DataIsInvalidError" /\ last.field = "level"
  /\ Len(content) = 1

\* every string followed by the delimiter
RECURSIVE EachFollowedBy(_, _)
EachFollowedBy(strings, delim) ==
  IF strings = <<>> THEN <<>>
  ELSE Head(strings) \o delim \o EachFollowedBy(Tail(strings), delim)

\* the renderings a pass obtained before its last renderer resolution
RenderedBeforeLast(log) ==
  [j \in 1..(Len(RenderEntries(log)) - 1) |-> RenderEntries(log)[j].value]

\* C19: when a pass raises RendererIsUnknownError, it does so at the first
\* block of the Content, in order, for which no renderer is found (block k):
\* the log ends with the failed resolution of block k; the blocks before k,
\* and only they, have been rendered, each by some renderer, in Content
\* order; the sink holds their renderings, each followed by the delimiter
\* (nothing is rolled back); no formatter or renderer was invoked for a
\* block after k.
C19_FailureAtFirstUnrenderable ==
  ( IsRenderCall /\ last.raised = "RendererIsUnknownError" )
  => /\ Len(RenderEntries(last.log)) >= 1
     /\ last.log[Len(last.log)].step = "render"
     /\ last.log[Len(last.log)].strategy = None
     /\ [j \in 1..Len(RenderEntries(last.log)) |-> RenderEntries(last.log)[j].block]
          = SubSeq(ContentIter(content), 1, Len(RenderEntries(last.log)))
     /\ \A j \in 1..(Len(RenderEntries(last.log)) - 1) :
          RenderEntries(last.log)[j].strategy # None
     /\ \A k \in 1..Len(last.log) :
          \E j \in 1..Len(RenderEntries(last.log)) :
            last.log[k].block = ContentIter(content)[j]
     /\ \A k1, k2 \in 1..Len(last.log) :
          ( k1 < k2 /\ last.log[k1].block = last.log[k2].block )
          => \A k \in k1..k2 : last.log[k].block = last.log[k1].block
     /\ last.stream.buf
          = IF last.stream.kind = "StringIO"
            THEN EachFollowedBy(RenderedBeforeLast(last.log), delimiter)
            ELSE Encode(EachFollowedBy(RenderedBeforeLast(last.log), delimiter), encoding)

\* a pass failed at the second of two blocks; the rendering of the first and
\* the delimiter are in the sink
C19_Witness ==
  /\ IsRenderCall /\ last.raised = "RendererIsUnknownError"
  /\ Len(content) = 2
  /\ Len(RenderEntries(last.log)) = 2
  /\ last.stream.kind = "StringIO"
  /\ last.stream.buf = <<"#", " ", "a", "b", "\n">> \o delimiter

\* C20 (as claimed): whether a pass succeeds depends on the renderer
\* registry as it is when the pass runs, not as it was when the blocks were
\* added.  A pass made right after a class got its first renderer, over
\* blocks added before that, among them blocks of that class without a
\* renderer of their own, every class in the Content now having a renderer,
\* returns normally.  A pass made right after the renderer of a class was
\* removed raises RendererIsUnknownError at the first block of that class,
\* without a renderer of its own, whose renderer it resolves.
C20_RegistryAtRenderTime ==
  /\ [][ ( /\ last.op = "set_renderer" /\ last.raised = "none" /\ ~last.existed
           /\ \E i \in 1..Len(content) :
                content[i].data.type = last.type /\ content[i].renderer = None
           /\ \A i \in 1..Len(content) :
                RegistryContains(rendererReg, content[i].data.type)
           /\ last'.op \in {"as_str", "as_stream"} )
         => last'.raised = "none" ]_vars
  /\ [][ ( /\ last.op = "remove_renderer" /\ last.ret # None
           /\ last'.op \in {"as_str", "as_stream"} )
         => \A k \in 1..Len(last'.log) :
              ( /\ last'.log[k].step = "render"
                /\ last'.log[k].dataType = last.type
                /\ BlockById(last'.log[k].block).renderer = None )
              => /\ last'.log[k].strategy = None
                 /\ k = Len(last'.log)
                 /\ last'.raised = "RendererIsUnknownError" ]_vars

\* C21 (as claimed): the payload the formatter returns replaces the payload
\* the block holds: after a pass the block's data accessor returns the
\* payload that was passed to the renderer, so that what the renderer
\* returned in the pass is what it returns for the payload the block holds.
C21_FormattedPayloadReplacesData ==
  IsRenderCall =>
    \A k \in 1..Len(last.log) :
      ( last.log[k].step = "render" /\ last.log[k].strategy # None )
      => last.log[k].value
           = CallRenderer(last.log[k].strategy, BlockById(last.log[k].block).data).value

\* C22 (as claimed): formatting never changes the class of a payload: in
\* every pass the renderer of a block is resolved under the class of the
\* payload the block was constructed with (the one the block holds).
C22_RendererLookedUpUnderOwnType ==
  IsRenderCall =>
    \A k \in 1..Len(last.log) :
      last.log[k].step = "render"
      => last.log[k].dataType = BlockById(last.log[k].block).data.type

\* C23: a class based renderer or formatter invoked directly with a payload
\* whose class is not among its supported data types raises TypeError and
\* its _render / _format has not run (no string is returned, the payload is
\* as it was); invoked with a payload of a supported class, the outcome is
\* that of its _render / _format.
C23_DirectCallChecksType ==
  /\ last.op = "renderer_call"
     => /\ last.data.type \notin RendererSupportedDataTypes(last.strategy)
           => last.raised = "TypeError" /\ last.str = <<>>
        /\ ( last.data.type \in RendererSupportedDataTypes(last.strategy)
             /\ last.strategy = "HeadingMarkdownRenderer" )
           => /\ last.raised = HeadingMarkdownRender(last.data).raised
              /\ last.str = HeadingMarkdownRender(last.data).value
        /\ ( last.data.type \in RendererSupportedDataTypes(last.strategy)
             /\ last.strategy = "WrappedParagraphRenderer" )
           => /\ last.raised = "none"
              /\ last.str = Fill(last.data.text, WrapWidth)
  /\ last.op = "formatter_call"
     => /\ last.data.type \notin FormatterSupportedDataTypes(last.strategy)
           => last.raised = "TypeError" /\ last.out = last.data
        /\ last.data.type \in FormatterSupportedDataTypes(last.strategy)
           => /\ last.raised = "none"
              /\ last.out = [last.data EXCEPT !.text = Fill(@, WrapWidth)]

\* HeadingMarkdownRenderer was called with a Paragraph and refused it
C23_Witness ==
  /\ last.op = "renderer_call"
  /\ last.strategy = "HeadingMarkdownRenderer"
  /\ last.data.type = "Paragraph"
  /\ last.raised = "TypeError"

\* C24: a block belongs to at most one Content: whatever add_block calls
\* are made on two documents, no block object is in the contents of both.
C24_BlockInOneContent ==
  \A i \in 1..Len(content), j \in 1..Len(otherContent) :
    content[i].id # otherContent[j].id

\* C25: after a to_file that raised nothing, the bytes of the file are the
\* encoding of what as_str returns for the document.
C25_FileHoldsRenderedContent ==
  ( last.op = "to_file" /\ last.raised = "none" )
  => last.file.bytes
       = Encode(StreamGetValue(AsStreamImpl(content, NewStream("StringIO"), formatterReg,
                                            rendererReg, delimiter, encoding).stream),
                encoding)

\* C26: a document constructed with a registry supplied by the caller uses
\* that very object, whatever it contains: the entries the document resolves
\* renderers from are at all times the entries of the supplied object.
C26_SuppliedRegistryIsUsed ==
  supplied.given => rendererReg = SuppliedView

\* the strategy that is present for a block: the one the block carries,
\* otherwise the one registered for the class, otherwise None
Present(own, reg, type) ==
  IF own # None THEN own
  ELSE IF RegistryContains(reg, type) THEN reg[type]
  ELSE None

\* C27: resolution depends on whether a strategy is present, not on its
\* truth value: in a render pass the renderer selected for a block is the
\* one present for it and RendererIsUnknownError is raised only when none is
\* present; a formatter is invoked for a block exactly when one is present,
\* and it is that one.
C27_ResolutionIgnoresTruthValue ==
  IsRenderCall =>
    \A k \in 1..Len(last.log) :
      /\ last.log[k].step = "render"
         => /\ last.log[k].strategy
                 = Present(BlockById(last.log[k].block).renderer, rendererReg,
                           last.log[k].dataType)
            /\ ( k = Len(last.log) /\ last.raised = "RendererIsUnknownError" )
               => Present(BlockById(last.log[k].block).renderer, rendererReg,
                          last.log[k].dataType) = None
            /\ ( Present(BlockById(last.log[k].block).formatter, formatterReg,
                         BlockById(last.log[k].block).data.type) # None )
               => \E j \in FormatCalls(last.log, last.log[k].block) : j < k
      /\ last.log[k].step = "format"
         => last.log[k].strategy
              = Present(BlockById(last.log[k].block).formatter, formatterReg,
                        last.log[k].dataType)

\* the structure of a Content: for every slot, in order, the block object,
\* its name and the strategies it carries
Structure(blocks) ==
  [i \in 1..Len(blocks) |->
     <<blocks[i].id, blocks[i].name, blocks[i].formatter, blocks[i].renderer>>]

\* C28: a render pass, whether it succeeds or fails, leaves the structure of
\* the document as it was: the same blocks under the same names in the same
\* order, every block with the instance formatter and instance renderer it
\* had, and both registries with the entries they had.
C28_PassKeepsStructure ==
  [][ last'.op \in {"as_str", "as_stream"}
      => /\ Structure(content') = Structure(content)
         /\ ContentIter(content') = ContentIter(content)
         /\ rendererReg' = rendererReg
         /\ formatterReg' = formatterReg
    ]_vars

\* a pass over two blocks failed at the second one after the formatter and
\* the renderer the first one carries had been applied
C28_Witness ==
  /\ IsRenderCall /\ last.raised = "RendererIsUnknownError"
  /\ Len(content) = 2
  /\ content[1].formatter = "append_bang" /\ content[1].renderer = "reverse_renderer"
  /\ FormatCalls(last.log, content[1].id) # {}
  /\ RegistryLen(rendererReg) > 0

\* C29: two render passes in a row, nothing added and no registry changed in
\* between, return the same output whatever formatters are resolved:
\* formatting does not accumulate from one pass to the next.
C29_PassesRepeatOutput ==
  [][ ( last.op = "as_str" /\ last'.op = "as_str" )
      => ( last'.raised = last.raised /\ last'.str = last.str ) ]_vars

\* C30: add_heading / add_paragraph under a name the Content already holds
\* puts the new block in the slot of that name: the name stays at the
\* position it had in iteration order (it does not move to the end), and
\* every other slot holds the block it held, in the same order.
C30_ReAddKeepsPosition ==
  [][ ( /\ last'.op \in {"add_heading", "add_paragraph"} /\ last'.raised = "none"
        /\ NameIndex(content, last'.ret) # 0 )
      => /\ ContentLen(content') = ContentLen(content)
         /\ \A i \in 1..Len(content) :
              IF i = NameIndex(content, last'.ret)
              THEN /\ ContentIter(content')[i] = nextId
                   /\ content'[i].name = last'.ret
                   /\ content'[i].data.text = last'.args.text
              ELSE content'[i] = content[i]
    ]_vars

\* the first of two names was added again: its new block is first in
\* iteration order, the block of the other name second
C30_Witness ==
  /\ last.op \in {"add_heading", "add_paragraph"} /\ last.raised = "none"
  /\ Len(added) = 3
  /\ added[3].name = added[1].name /\ added[2].name # added[1].name
  /\ ContentIter(content) = <<added[3].id, added[2].id>>

====
